---- MODULE Spec2Model ----
(***************************************************************************)
(* The /event reminder bot (src/unnamed/part_001): the events.json store,  *)
(* the /event slash command (add, list, remove) and the 30-second reminder *)
(* tick.  Node runs every handler on one event loop: a handler runs        *)
(* without interruption from one await of an external call to the next, so *)
(* each action below is one such run.                                      *)
(*                                                                         *)
(* A string the code inspects (the DATE, TIME and ID tokens, the stored    *)
(* isoJst, the minute keys) is held in the state by its text, and StrTable *)
(* spells it as a sequence of one-character strings; every operator that   *)
(* looks into a string works on that spelling.                             *)
(***************************************************************************)
EXTENDS Integers, Sequences, FiniteSets, TLC

\* ---------------------------------------------------------------- bounds
\* Records created over a run (each gets a fresh creation number, uid).
MaxAdds == 1
\* Minutes the clock advances past the first minute bucket.
MaxClock == 1
\* Ticks that can be in flight at once (setInterval has no overlap guard).
MaxTicks == 2

\* ---------------------------------------------------------------- strings
StrTable ==
    << <<"2026-01-12", <<"2", "0", "2", "6", "-", "0", "1", "-", "1", "2">> >>,
       <<"2026/01/12", <<"2", "0", "2", "6", "/", "0", "1", "/", "1", "2">> >>,
       <<"09:30", <<"0", "9", ":", "3", "0">> >>,
       <<"09:31", <<"0", "9", ":", "3", "1">> >>,
       <<"25:99", <<"2", "5", ":", "9", "9">> >>,
       <<"9:30", <<"9", ":", "3", "0">> >>,
       <<"1", <<"1">> >>,
       <<"2", <<"2">> >>,
       <<"999", <<"9", "9", "9">> >>,
       <<"abc", <<"a", "b", "c">> >>,
       <<"2026-01-12T09:30:00+09:00",
         <<"2", "0", "2", "6", "-", "0", "1", "-", "1", "2", "T", "0", "9",
           ":", "3", "0", ":", "0", "0", "+", "0", "9", ":", "0", "0">> >>,
       <<"2026-01-12T09:31:00+09:00",
         <<"2", "0", "2", "6", "-", "0", "1", "-", "1", "2", "T", "0", "9",
           ":", "3", "1", ":", "0", "0", "+", "0", "9", ":", "0", "0">> >>,
       <<"2026-01-12T25:99:00+09:00",
         <<"2", "0", "2", "6", "-", "0", "1", "-", "1", "2", "T", "2", "5",
           ":", "9", "9", ":", "0", "0", "+", "0", "9", ":", "0", "0">> >>,
       <<"2026-01-12 09:30",
         <<"2", "0", "2", "6", "-", "0", "1", "-", "1", "2", " ", "0", "9",
           ":", "3", "0">> >>,
       <<"2026-01-12 09:31",
         <<"2", "0", "2", "6", "-", "0", "1", "-", "1", "2", " ", "0", "9",
           ":", "3", "1">> >>,
       <<"2026-01-12 09:32",
         <<"2", "0", "2", "6", "-", "0", "1", "-", "1", "2", " ", "0", "9",
           ":", "3", "2">> >>,
       <<"2026-01-12 09:33",
         <<"2", "0", "2", "6", "-", "0", "1", "-", "1", "2", " ", "0", "9",
           ":", "3", "3">> >> >>

\* the characters of a string, and the string of a sequence of characters
CharsOf ==
    [s \in {StrTable[k][1] : k \in 1..Len(StrTable)} |->
        StrTable[CHOOSE k \in 1..Len(StrTable) : StrTable[k][1] = s][2]]

StrOf ==
    [cs \in {StrTable[k][2] : k \in 1..Len(StrTable)} |->
        StrTable[CHOOSE k \in 1..Len(StrTable) : StrTable[k][2] = cs][1]]

Chars(s) == CharsOf[s]

Str(cs) == StrOf[cs]

DigitChars == <<"0", "1", "2", "3", "4", "5", "6", "7", "8", "9">>

IsDigit(c) == \E n \in 1..10 : DigitChars[n] = c

DigitVal(c) == (CHOOSE n \in 1..10 : DigitChars[n] = c) - 1

DigitChar(n) == DigitChars[n + 1]

\* String(n).padStart(2, "0"), the "2-digit" part of a date, 0 <= n <= 99
Two(n) == <<DigitChar(n \div 10), DigitChar(n % 10)>>

\* the decimal value of the first n of a sequence of digits
RECURSIVE DecValUpTo(_, _)
DecValUpTo(cs, n) ==
    IF n = 0 THEN 0 ELSE 10 * DecValUpTo(cs, n - 1) + DigitVal(cs[n])

\* the decimal value of a sequence of digits
DecVal(cs) == DecValUpTo(cs, Len(cs))

\* UTF-16 code units of the characters that occur in an isoJst string
CharCode(c) ==
    CASE c = "+" -> 43
      [] c = "-" -> 45
      [] c = "/" -> 47
      [] IsDigit(c) -> 48 + DigitVal(c)
      [] c = ":" -> 58
      [] c = "T" -> 84
      [] OTHER -> 97

\* a > b on JavaScript strings: the first differing code unit decides, a
\* proper prefix is the smaller
RECURSIVE SeqGreater(_, _)
SeqGreater(a, b) ==
    IF Len(a) = 0 THEN FALSE
    ELSE IF Len(b) = 0 THEN TRUE
    ELSE IF a[1] # b[1] THEN CharCode(a[1]) > CharCode(b[1])
    ELSE SeqGreater(Tail(a), Tail(b))

StrGreater(a, b) == SeqGreater(Chars(a), Chars(b))

\* ---------------------------------------------------------------- inputs
DateTokens == {"2026-01-12", "2026/01/12"}
TimeTokens == {"09:30", "09:31", "25:99", "9:30"}
IdTokens   == {"1", "2", "999", "abc"}

\* command.text after trim().split(/\s+/); <<>> is the empty text
AddTexts ==
    {<<"add">>, <<"add", "2026-01-12", "09:30">>}
        \cup {<<"add", d, t, "Standup">> : d \in DateTokens, t \in TimeTokens}

RemoveTexts ==
    {<<"remove">>, <<"delete", "1">>, <<"del", "1">>}
        \cup {<<"remove", i>> : i \in IdTokens}

CommandTexts == {<<>>, <<"list">>, <<"help">>} \cup AddTexts \cup RemoveTexts

\* the first minute bucket of a run: 09:30 on 2026-01-12, in minutes of the day
StartMinute == 9 * 60 + 30

\* ---------------------------------------------------------------- state
VARIABLES
    file,       \* events.json: [state, events]
    channel,    \* TRUE iff TARGET_CHANNEL_ID is set
    clock,      \* the wall clock, in minutes of the day 2026-01-12 (JST)
    cmd,        \* the /event invocation in flight
    tick,       \* the tick() calls in flight, by slot
    nextUid,    \* creation number of the next record (not program state)
    delivered,  \* uids of the records a chat.postMessage call succeeded for
    fired,      \* parity of the number of ticks started so far (not program state)
    passed      \* the records unnotified in the store when the clock left their
                \* minute, each with whether no tick of that minute was in flight
                \* (not program state)

vars == <<file, channel, clock, cmd, tick, nextUid, delivered, fired, passed>>

TickIds == 1..MaxTicks

\* ---------------------------------------------------------------- utilities
ensureDataFile(f) ==
    IF f.state = "absent" THEN [state |-> "array", events |-> <<>>] ELSE f

loadEventsUnmarked(f) ==
    [file   |-> ensureDataFile(f),
     events |-> IF f.state = "array"
                THEN [k \in 1..Len(f.events) |->
                         [f.events[k] EXCEPT !.notified = FALSE]]
                ELSE <<>>]

\* the array read, and the file as ensureDataFile leaves it; a file that
\* does not parse, or parses to a non-array, reads as []
loadEvents(f) ==
    [file   |-> ensureDataFile(f),
     events |-> IF f.state = "array" THEN f.events ELSE <<>>]

saveEvents(events) == [state |-> "array", events |-> events]

\* new Date(iso) on a string built by parseJstToIso from tokens that passed
\* the two regular expressions, then Intl formatToParts in Asia/Tokyo.  The
\* instant carries +09:00 and the zone has no DST, so the parts are the
\* fields read.  An invalid Date makes formatToParts throw a RangeError.
\* (Inputs keep the day below 29 and the hour off 24, where engines differ.)
formatJstOf(iso) ==
    LET cs     == Chars(iso)
        year   == DecVal(SubSeq(cs, 1, 4))
        month  == DecVal(SubSeq(cs, 6, 7))
        day    == DecVal(SubSeq(cs, 9, 10))
        hour   == DecVal(SubSeq(cs, 12, 13))
        minute == DecVal(SubSeq(cs, 15, 16))
        valid  == /\ month \in 1..12
                  /\ day \in 1..31
                  /\ hour \in 0..23
                  /\ minute \in 0..59
    IN  IF ~valid
        THEN [threw |-> TRUE, val |-> ""]
        ELSE [threw |-> FALSE,
              val   |-> Str(Two(year \div 100) \o Two(year % 100) \o <<"-">>
                            \o Two(month) \o <<"-">> \o Two(day) \o <<" ">>
                            \o Two(hour) \o <<":">> \o Two(minute))]

\* the isoJst strings, and formatJst as the table of its results on them
IsoStrings ==
    {StrTable[k][1] : k \in {j \in 1..Len(StrTable) : Len(StrTable[j][2]) = 25}}

formatJstTable == [iso \in IsoStrings |-> formatJstOf(iso)]

formatJst(iso) == formatJstTable[iso]

\* the minute key of new Date() in Asia/Tokyo
nowKeyJst ==
    Str(Chars("2026-01-12") \o <<" ">>
            \o Two(clock \div 60) \o <<":">> \o Two(clock % 60))

parseJstToIso(dateStr, timeStr) ==
    Str(Chars(dateStr) \o <<"T">> \o Chars(timeStr)
            \o <<":", "0", "0", "+", "0", "9", ":", "0", "0">>)

Max(a, b) == IF a >= b THEN a ELSE b

\* the loop of nextId; stored ids are the numbers add wrote, so Number(e.id)
\* is e.id and never NaN
RECURSIVE nextIdLoop(_, _, _)
nextIdLoop(events, k, max) ==
    IF k > Len(events) THEN max
    ELSE nextIdLoop(events, k + 1, Max(max, events[k].id))

nextIdOfLength(events) == Len(events) + 1

nextId(events) == nextIdLoop(events, 1, 0) + 1

\* /^\d{4}-\d{2}-\d{2}$/.test(s)
DateLengthOnly(s) == Len(Chars(s)) = 10

MatchesDate(s) ==
    LET cs == Chars(s)
    IN  /\ Len(cs) = 10
        /\ \A k \in {1, 2, 3, 4, 6, 7, 9, 10} : IsDigit(cs[k])
        /\ cs[5] = "-"
        /\ cs[8] = "-"

\* /^\d{2}:\d{2}$/.test(s)
MatchesTime(s) ==
    LET cs == Chars(s)
    IN  /\ Len(cs) = 5
        /\ \A k \in {1, 2, 4, 5} : IsDigit(cs[k])
        /\ cs[3] = ":"

\* Number(s) of an ID token: digits give their value, letters give NaN
Number(s) ==
    LET cs == Chars(s)
    IN  IF \A k \in 1..Len(cs) : IsDigit(cs[k])
        THEN [nan |-> FALSE, val |-> DecVal(cs)]
        ELSE [nan |-> TRUE, val |-> 0]

\* ---------------------------------------------------------------- /event
NoReply == [kind |-> "none", id |-> 0, items |-> <<>>]

\* what one run of the handler body does: the file it leaves, its store
\* I/O in order, the reply it passes to respond (or that it threw first)
Replied(f, io, kind, id, items) ==
    [file |-> f, io |-> io, threw |-> FALSE,
     reply |-> [kind |-> kind, id |-> id, items |-> items]]

Thrown(f, io) == [file |-> f, io |-> io, threw |-> TRUE, reply |-> NoReply]

Line(e, when) ==
    [id |-> e.id, when |-> when, title |-> e.title, done |-> e.notified]

\* tokens.slice(3).join(" "); the texts here carry at most one title word
JoinTitle(words) == IF Len(words) = 0 THEN "" ELSE words[1]

\* tokens.length < 4: fewer than three arguments after "add"
TooFewArgsOffByOne(tokens) == Len(tokens) < 3

TooFewArgs(tokens) == Len(tokens) < 4

AddCommand(tokens, f, uid) ==
    IF TooFewArgs(tokens)
    THEN Replied(f, <<>>, "format", 0, <<>>)
    ELSE
        LET dateStr == tokens[2]
            timeStr == tokens[3]
            title   == JoinTitle(SubSeq(tokens, 4, Len(tokens)))
        IN  IF ~MatchesDate(dateStr) \/ ~MatchesTime(timeStr)
            THEN Replied(f, <<>>, "datetime", 0, <<>>)
            ELSE
                LET isoJst == parseJstToIso(dateStr, timeStr)
                    ld     == loadEvents(f)
                    id     == nextId(ld.events)
                    e      == [id |-> id, isoJst |-> isoJst, title |-> title,
                               notified |-> FALSE, uid |-> uid]
                    saved  == saveEvents(Append(ld.events, e))
                    shown  == formatJst(isoJst)
                IN  IF shown.threw
                    THEN Thrown(saved, <<"load", "save">>)
                    ELSE Replied(saved, <<"load", "save">>, "added", id,
                                 <<Line(e, shown.val)>>)

\* the orders Array.prototype.sort may leave: the comparator never returns
\* 0, so the order of records with equal isoJst is the engine's choice
SortedOrders(events) ==
    LET n == Len(events)
        perms == {p \in [1..n -> 1..n] : \A a, b \in 1..n : a # b => p[a] # p[b]}
        sorted(p) == \A a, b \in 1..n :
                        a < b => ~StrGreater(events[p[a]].isoJst, events[p[b]].isoJst)
    IN  {[k \in 1..n |-> events[p[k]]] : p \in {q \in perms : sorted(q)}}

ListLimit == 50

ListCommand(f) ==
    LET ld == loadEvents(f)
    IN  IF Len(ld.events) = 0
        THEN {Replied(ld.file, <<"load">>, "empty", 0, <<>>)}
        ELSE
            {LET shown == SubSeq(events, 1, IF Len(events) < ListLimit
                                             THEN Len(events) ELSE ListLimit)
             IN  IF \E k \in 1..Len(shown) : formatJst(shown[k].isoJst).threw
                 THEN Thrown(ld.file, <<"load">>)
                 ELSE Replied(ld.file, <<"load">>, "list", 0,
                              [k \in 1..Len(shown) |->
                                  Line(shown[k], formatJst(shown[k].isoJst).val)])
             : events \in SortedOrders(ld.events)}

RemoveCommand(tokens, f) ==
    IF Len(tokens) < 2
    THEN Replied(f, <<>>, "remove-format", 0, <<>>)
    ELSE
        LET id == Number(tokens[2])
        IN  IF id.nan
            THEN Replied(f, <<>>, "id-nan", 0, <<>>)
            ELSE
                LET events == loadEvents(f).events
                    before == Len(events)
                    after  == SelectSeq(events, LAMBDA e : e.id # id.val)
                IN  Replied(saveEvents(after), <<"load", "save">>,
                            IF Len(after) = before THEN "notfound" ELSE "removed",
                            id.val, <<>>)

\* app.command("/event") after ack(): the outcomes of one invocation
EventCommand(tokens, f, uid) ==
    IF tokens = <<>> THEN {Replied(f, <<>>, "help", 0, <<>>)}
    ELSE IF tokens[1] = "add" THEN {AddCommand(tokens, f, uid)}
    ELSE IF tokens[1] = "list" THEN ListCommand(f)
    ELSE IF tokens[1] = "remove" \/ tokens[1] = "delete"
         THEN {RemoveCommand(tokens, f)}
    ELSE {Replied(f, <<>>, "unknown", 0, <<>>)}

\* ---------------------------------------------------------------- tick
\* the for loop of tick() from index k on, up to the next suspension: the
\* index of the record whose chat.postMessage is awaited, the end of the
\* loop, or the RangeError of formatJst.  Without a channel id postReminder
\* returns {ok: false} at once and the loop goes on.
MinuteReached(ek, nowKey) == ~StrGreater(ek, nowKey)

\* if (ek === nowKey): the record's minute key is the tick's
SameMinute(ek, nowKey) == ek = nowKey

CallsPostMessageAlways(ch) == TRUE

\* postReminder: with no TARGET_CHANNEL_ID it warns and returns {ok: false}
\* without calling chat.postMessage
CallsPostMessage(ch) == ch

RECURSIVE Scan(_, _, _)
Scan(events, k, nowKey) ==
    IF k > Len(events) THEN [kind |-> "end", i |-> k]
    ELSE IF events[k].notified THEN Scan(events, k + 1, nowKey)
    ELSE
        LET ek == formatJst(events[k].isoJst)
        IN  IF ek.threw THEN [kind |-> "throw", i |-> k]
            ELSE IF SameMinute(ek.val, nowKey) /\ CallsPostMessage(channel)
                 THEN [kind |-> "await", i |-> k]
            ELSE Scan(events, k + 1, nowKey)

\* a tick slot: the locals of tick() (nowKey, events, the loop index i,
\* changed) and, for the record, what it loaded, the chat.postMessage calls
\* it made, whether it saved (and the collection its save replaced), and
\* whether another handler ran meanwhile
IdleTick ==
    [pc |-> "idle", nowKey |-> "", events |-> <<>>, i |-> 0,
     changed |-> FALSE, loaded |-> <<>>, calls |-> <<>>, clean |-> TRUE,
     saved |-> FALSE, over |-> <<>>]

Disturbed(rec) == IF rec.pc = "await" THEN [rec EXCEPT !.clean = FALSE] ELSE rec

\* tick t, with locals rec, runs on from index k to its next await, to its
\* end (saving if changed) or to the throw; f is the file as its load left it
RunTick(t, rec, k, f) ==
    LET s == Scan(rec.events, k, rec.nowKey)
        end == s.kind = "end"
        now == [rec EXCEPT
                   !.pc = IF s.kind = "await" THEN "await"
                          ELSE IF end THEN "done" ELSE "threw",
                   !.i = s.i,
                   !.saved = end /\ rec.changed,
                   !.over = IF end /\ rec.changed THEN f.events ELSE <<>>]
    IN  /\ tick' = [u \in TickIds |-> IF u = t THEN now ELSE Disturbed(tick[u])]
        /\ file' = IF end /\ rec.changed THEN saveEvents(rec.events) ELSE f

\* ---------------------------------------------------------------- actions
IdleCmd ==
    [pc |-> "idle", tokens |-> <<>>, reply |-> NoReply, io |-> <<>>,
     before |-> saveEvents(<<>>)]

\* events.json as an earlier run of the bot left it: an empty store after
\* "/event add 2026-01-12 09:31 Standup" and "/event add 2026-01-12 25:99
\* Standup" (creation numbers -1 and 0)
SeededFile ==
    AddCommand(<<"add", "2026-01-12", "25:99", "Standup">>,
               AddCommand(<<"add", "2026-01-12", "09:31", "Standup">>,
                          saveEvents(<<>>), -1).file,
               0).file

Init ==
    /\ file \in {saveEvents(<<>>), [state |-> "corrupt", events |-> <<>>], SeededFile}
    /\ channel \in BOOLEAN
    /\ clock = StartMinute
    /\ cmd = IdleCmd
    /\ tick = [t \in TickIds |-> IdleTick]
    /\ nextUid = 1
    /\ delivered = {}
    /\ fired = FALSE
    /\ passed = {}

\* A handler that has just ended is kept, as it ended, for one step (CmdEnd,
\* TickEnd) that only clears it; nothing else runs in between, so the state
\* there is the state right after the handler.
AtRest ==
    /\ cmd.pc \in {"idle", "ack"}
    /\ \A t \in TickIds : tick[t].pc \in {"idle", "await"}

\* would this text make add append a record
Creates(text) ==
    /\ ~TooFewArgs(text)
    /\ text[1] = "add"
    /\ MatchesDate(text[2])
    /\ MatchesTime(text[3])

\* Slack delivers a /event invocation: the handler calls ack() and awaits it
CmdInvoke ==
    /\ AtRest
    /\ cmd.pc = "idle"
    /\ cmd' = [IdleCmd EXCEPT !.pc = "ack"]
    /\ tick' = [u \in TickIds |-> Disturbed(tick[u])]
    /\ UNCHANGED <<file, channel, clock, nextUid, delivered, fired, passed>>

\* where the body of the handler starts: behind "await ack()", its first
\* statement
BeforeAck(c) == c.pc = "idle"

AfterAck(c) == c.pc = "ack"

\* the handler resumes after ack(), reads command.text and runs to its
\* await of respond(), or throws on the way
CmdBody(text) ==
    /\ AtRest
    /\ AfterAck(cmd)
    /\ Creates(text) => nextUid <= MaxAdds
    /\ \E out \in EventCommand(text, file, nextUid) :
          /\ file' = out.file
          /\ cmd' = [pc |-> IF out.threw THEN "threw" ELSE "respond",
                     tokens |-> text,
                     reply |-> out.reply,
                     io |-> out.io,
                     before |-> file]
    /\ nextUid' = IF Creates(text) THEN nextUid + 1 ELSE nextUid
    /\ tick' = [u \in TickIds |-> Disturbed(tick[u])]
    /\ UNCHANGED <<channel, clock, delivered, fired, passed>>

\* respond() was called (or the rejection logged): the handler is over
CmdEnd ==
    /\ cmd.pc \in {"respond", "threw"}
    /\ cmd' = IdleCmd
    /\ UNCHANGED <<file, channel, clock, tick, nextUid, delivered, fired, passed>>

\* setInterval fires: tick() runs up to its first await of chat.postMessage.
\* Slots are names only: a new tick takes the lowest slot not awaiting.
TickStart(t) ==
    /\ AtRest
    /\ tick[t].pc = "idle"
    /\ \A u \in TickIds : u < t => tick[u].pc = "await"
    /\ LET ld == loadEvents(file)
           rec == [IdleTick EXCEPT !.nowKey = nowKeyJst,
                                   !.events = ld.events,
                                   !.loaded = ld.events]
       IN  RunTick(t, rec, 1, ld.file)
    /\ UNCHANGED <<channel, clock, cmd, nextUid, delivered, passed>>
    /\ fired' = ~fired

MarksWhateverResult(ok) == TRUE

\* if (res.ok): the record is marked, and changed set, on success only
MarksOn(ok) == ok

MarkedAndCleared(e, ok) == [e EXCEPT !.notified = MarksOn(ok), !.title = ""]

\* e.notified = true inside if (r.ok): the one field the tick writes
Marked(e, ok) == IF MarksOn(ok) THEN [e EXCEPT !.notified = TRUE] ELSE e

\* chat.postMessage settles for the record tick t awaits: postReminder
\* returns {ok}, the tick marks the record on success and runs on
DeliveryReturn(t, ok) ==
    /\ AtRest
    /\ tick[t].pc = "await"
    /\ LET e == tick[t].events[tick[t].i]
           rec == [tick[t] EXCEPT
                      !.events[tick[t].i] = Marked(e, ok),
                      !.changed = tick[t].changed \/ MarksOn(ok),
                      !.calls = Append(tick[t].calls, [uid |-> e.uid, ok |-> ok])]
       IN  /\ RunTick(t, rec, tick[t].i + 1, file)
           /\ delivered' = IF ok THEN delivered \cup {e.uid} ELSE delivered
    /\ UNCHANGED <<channel, clock, cmd, nextUid, fired, passed>>

SettlesIfFulfilled(pc) == pc = "done"

\* the setInterval callback: tick().catch(...) takes the rejection of a
\* tick that threw as it takes the fulfilment of one that ended
Settles(pc) == pc \in {"done", "threw"}

\* the tick's promise has settled (a rejection is logged by the catch of the
\* setInterval callback): the call is over
TickEnd(t) ==
    /\ Settles(tick[t].pc)
    /\ tick' = [tick EXCEPT ![t] = IdleTick]
    /\ UNCHANGED <<file, channel, clock, cmd, nextUid, delivered, fired, passed>>

\* a minute passes
ClockAdvance ==
    /\ AtRest
    /\ clock < StartMinute + MaxClock
    /\ clock' = clock + 1
    /\ passed' = passed \cup
          {[uid |-> e.uid,
            quiet |-> \A t \in TickIds :
                         tick[t].pc = "idle" \/ tick[t].nowKey # nowKeyJst] :
             e \in {d \in {file.events[k] : k \in 1..Len(file.events)} :
                       /\ ~d.notified
                       /\ ~formatJst(d.isoJst).threw
                       /\ formatJst(d.isoJst).val = nowKeyJst}}
    /\ UNCHANGED <<file, channel, cmd, tick, nextUid, delivered, fired>>

Next ==
    \/ CmdInvoke
    \/ \E text \in CommandTexts : CmdBody(text)
    \/ CmdEnd
    \/ \E t \in TickIds : TickStart(t)
    \/ \E t \in TickIds, ok \in BOOLEAN : DeliveryReturn(t, ok)
    \/ \E t \in TickIds : TickEnd(t)
    \/ ClockAdvance

Spec == Init /\ [][Next]_vars

\* The event loop runs what is ready: a handler that has ended returns, and
\* the interval timer, which nothing clears, fires again and again; its
\* callback runs whenever the loop is free.  (How long chat.postMessage
\* takes, and whether Slack sends commands, is not the program's to decide.)
FairSpec ==
    /\ Spec
    /\ WF_vars(CmdEnd)
    /\ WF_vars(\E t \in TickIds : TickEnd(t))
    /\ SF_vars(\E t \in TickIds : TickStart(t))

\* ---------------------------------------------------------------- claims
\* the records of a store, the ids in it, and the id the data model assigns
Recs(f) == {f.events[k] : k \in 1..Len(f.events)}

Ids(f) == {e.id : e \in Recs(f)}

ExpectedId(f) ==
    IF Ids(f) = {} THEN 1
    ELSE (CHOOSE m \in Ids(f) : \A n \in Ids(f) : n <= m) + 1

Ended == cmd.pc \in {"respond", "threw"}

Elems(seq) == {seq[k] : k \in 1..Len(seq)}

\* e is due at the minute key: its key exists and equals it
IsDue(e, key) ==
    /\ ~formatJst(e.isoJst).threw
    /\ formatJst(e.isoJst).val = key

\* C1: once the store holds a record with notified = true, no step leaves
\* the store holding that same record with notified = false.
C1_NotifiedMonotonic ==
    [][\A a \in Recs(file), b \in Recs(file') :
          (a.uid = b.uid /\ a.notified) => b.notified]_vars

\* C2: each record receives at most one successful delivery call: no
\* chat.postMessage call succeeds for a record one has succeeded for before.
C2_AtMostOneDelivery ==
    [][\A t \in TickIds :
          (/\ tick[t].pc = "await"
           /\ Len(tick'[t].calls) = Len(tick[t].calls) + 1
           /\ tick'[t].calls[Len(tick'[t].calls)].ok)
          => tick'[t].calls[Len(tick'[t].calls)].uid \notin delivered]_vars

\* C3: the save of a tick leaves the set of record ids in the store as it
\* was immediately before that save.
C3_TickKeepsIds ==
    [][\A t \in TickIds :
          (tick[t].pc = "await" /\ tick'[t].pc = "done" /\ tick'[t].saved)
          => Ids(file') = Ids(file)]_vars

\* the add texts with a well-formed date and a time of day
ValidAdd(tokens) ==
    /\ Len(tokens) = 4
    /\ tokens[1] = "add"
    /\ tokens[2] = "2026-01-12"
    /\ tokens[3] \in {"09:30", "09:31"}

\* C4: a valid add is answered with the id one above the largest id in the
\* store before the call (1 for an empty store), and after its save exactly
\* one record of the store has that id, the new one.
C4_AddAssignsNextId ==
    (Ended /\ ValidAdd(cmd.tokens)) =>
        /\ cmd.reply.kind = "added"
        /\ cmd.reply.id = ExpectedId(cmd.before)
        /\ \E e \in Recs(file) :
              /\ e.id = cmd.reply.id
              /\ e.uid = nextUid - 1
              /\ \A d \in Recs(file) : d.id = e.id => d = e
        /\ Len(file.events) = Len(cmd.before.events) + 1

\* an add answered on a store whose largest id is above its length
C4_Witness ==
    /\ Ended
    /\ ValidAdd(cmd.tokens)
    /\ Ids(cmd.before) = {2}
    /\ cmd.reply.id = 3

\* C5: the ids of the persisted store are pairwise distinct in every
\* reachable state.
C5_IdsDistinct ==
    \A j, k \in 1..Len(file.events) :
        j # k => file.events[j].id # file.events[k].id

\* a tick has saved a snapshot it loaded before another handler ran, and
\* the store holds several records
C5_Witness ==
    \E t \in TickIds :
        /\ tick[t].pc = "done"
        /\ tick[t].saved
        /\ ~tick[t].clean
        /\ Len(file.events) >= 2

\* C6: remove with an id that matches no record performs no save, leaves
\* the store unchanged and replies not-found.
C6_RemoveMissingNoSave ==
    (/\ Ended
     /\ Len(cmd.tokens) >= 2
     /\ cmd.tokens[1] \in {"remove", "delete"}
     /\ ~Number(cmd.tokens[2]).nan
     /\ Number(cmd.tokens[2]).val \notin Ids(cmd.before))
    => /\ cmd.reply.kind = "notfound"
       /\ "save" \notin Elems(cmd.io)
       /\ file = cmd.before

\* C7: an add whose TIME token has the HH:mm shape but an hour or minute
\* out of range (25:99) is rejected: a validation reply, no record
\* appended, no save.
C7_AddRejectsOutOfRangeTime ==
    (/\ Ended
     /\ Len(cmd.tokens) = 4
     /\ cmd.tokens[1] = "add"
     /\ cmd.tokens[3] = "25:99")
    => /\ cmd.reply.kind \in {"format", "datetime"}
       /\ "save" \notin Elems(cmd.io)
       /\ file = cmd.before

\* the add texts short of arguments or with a misshapen DATE or TIME token
MalformedAdd(tokens) ==
    /\ Len(tokens) >= 1
    /\ tokens[1] = "add"
    /\ \/ Len(tokens) < 4
       \/ tokens[2] = "2026/01/12"
       \/ tokens[3] = "9:30"

\* C8: an add with fewer than three arguments, or a DATE token not of the
\* form YYYY-MM-DD (2026/01/12), or a TIME token not of the form HH:mm
\* (9:30), does no load and no save, leaves the store unchanged and is
\* answered with a usage or validation message.
C8_MalformedAddNoMutation ==
    (Ended /\ MalformedAdd(cmd.tokens)) =>
        /\ cmd.pc = "respond"
        /\ cmd.reply.kind \in {"format", "datetime"}
        /\ cmd.io = <<>>
        /\ file = cmd.before

\* the malformed date of scenario C answered on a store that holds records
C8_Witness ==
    /\ Ended
    /\ cmd.tokens = <<"add", "2026/01/12", "09:30", "Standup">>
    /\ cmd.reply.kind = "datetime"
    /\ Len(file.events) >= 1

\* the records tick t loaded unnotified and due at its nowKey, by uid
DueLoaded(t) ==
    {e.uid : e \in {d \in Elems(tick[t].loaded) :
                       ~d.notified /\ IsDue(d, tick[t].nowKey)}}

\* C9: after a tick in which every delivery succeeded and no other handler
\* ran, every record it loaded unnotified and due is persisted notified,
\* one delivery call was made for each of them, and none for other records.
C9_TickNotifiesDue ==
    \A t \in TickIds :
        (/\ tick[t].pc \in {"done", "threw"}
         /\ channel
         /\ tick[t].clean
         /\ \A c \in Elems(tick[t].calls) : c.ok)
        => /\ \A u \in DueLoaded(t) :
                 \E e \in Recs(file) : e.uid = u /\ e.notified
           /\ {c.uid : c \in Elems(tick[t].calls)} = DueLoaded(t)
           /\ Len(tick[t].calls) = Cardinality(DueLoaded(t))

\* C10: in a tick, a failed delivery leaves its record unnotified and does
\* not stop the tick: every due, unnotified record later in the collection
\* gets its delivery attempt, and those that succeed are persisted notified.
C10_FailureDoesNotStopTick ==
    \A t \in TickIds :
        tick[t].pc \in {"done", "threw"} =>
            \A j \in 1..Len(tick[t].loaded) :
                (\E c \in Elems(tick[t].calls) :
                    c.uid = tick[t].loaded[j].uid /\ ~c.ok)
                => /\ ~tick[t].events[j].notified
                   /\ \A k \in (j + 1)..Len(tick[t].loaded) :
                         (/\ ~tick[t].loaded[k].notified
                          /\ IsDue(tick[t].loaded[k], tick[t].nowKey))
                         => \E c \in Elems(tick[t].calls) :
                               /\ c.uid = tick[t].loaded[k].uid
                               /\ c.ok => \E e \in Recs(file) :
                                             e.uid = c.uid /\ e.notified

\* the reply lines are in non-decreasing order of the instant they show
LinesInOrder(items) ==
    \A a, b \in 1..Len(items) :
        a < b => ~StrGreater(items[a].when, items[b].when)

\* C11: list replies with the stored records in non-decreasing order of
\* scheduled instant, whatever the store holds, at most the first 50 of
\* them, and never saves.
C11_ListSortedNoSave ==
    (Ended /\ cmd.tokens = <<"list">>) =>
        /\ cmd.pc = "respond"
        /\ cmd.reply.kind \in {"list", "empty"}
        /\ LinesInOrder(cmd.reply.items)
        /\ Len(cmd.reply.items) <= ListLimit
        /\ Len(cmd.reply.items) <= Len(cmd.before.events)
        /\ Len(cmd.before.events) <= ListLimit =>
              {l.id : l \in Elems(cmd.reply.items)} = Ids(cmd.before)
        /\ "save" \notin Elems(cmd.io)
        /\ file = cmd.before

\* C12: in every invocation, whatever its branch, the store is loaded or
\* saved by the handler only in a step taken after ack() was called: no
\* step does store I/O for an invocation whose ack() is still to come.
C12_AckBeforeStoreIO ==
    [][(cmd'.io # <<>> /\ cmd'.io # cmd.io) => cmd.pc = "ack"]_vars

\* an acknowledged invocation has loaded and saved the store
C12_Witness ==
    /\ Ended
    /\ cmd.io = <<"load", "save">>
    /\ cmd.tokens[1] = "remove"

\* C13: "remove ID" and "del ID" are both accepted and do the same: each
\* leaves the store without the record of that id, its other records kept,
\* and is answered removed or not-found by whether the id was there.
C13_RemoveAndDelAlike ==
    \A sub \in {"remove", "del"} :
        (/\ Ended
         /\ Len(cmd.tokens) = 2
         /\ cmd.tokens[1] = sub
         /\ ~Number(cmd.tokens[2]).nan)
        => LET id == Number(cmd.tokens[2]).val
           IN  /\ cmd.reply.kind = IF id \in Ids(cmd.before)
                                   THEN "removed" ELSE "notfound"
               /\ Recs(file) = {e \in Recs(cmd.before) : e.id # id}

\* C14: a load of a backing file that is absent, does not parse or parses
\* to a non-array returns the empty sequence without raising, and leaves
\* the file holding an empty valid collection (seen at list, which loads
\* and does nothing else to the store).
C14_LoadReinitializesFile ==
    (Ended /\ cmd.tokens = <<"list">> /\ cmd.before.state # "array") =>
        /\ cmd.pc = "respond"
        /\ cmd.reply.kind = "empty"
        /\ file = saveEvents(<<>>)

\* the creation number the invocation in flight used, if it created a record
UidUsed == IF Creates(cmd.tokens) THEN nextUid - 1 ELSE nextUid

\* C15: with no channel id configured, no tick makes a delivery call, sets
\* a notified flag or saves the store, and every command ends as the
\* handler ends it on that store whether or not the channel is configured.
C15_NoChannelNoDelivery ==
    ~channel =>
        /\ \A t \in TickIds :
              /\ tick[t].pc # "await"
              /\ tick[t].calls = <<>>
              /\ ~tick[t].changed
              /\ ~tick[t].saved
              /\ tick[t].events = tick[t].loaded
        /\ delivered = {}
        /\ \A e \in Recs(file) : ~e.notified
        /\ Ended =>
              \E out \in EventCommand(cmd.tokens, cmd.before, UidUsed) :
                  /\ file = out.file
                  /\ cmd.reply = out.reply
                  /\ cmd.io = out.io

\* with no channel id, a tick that loaded a record due at its nowKey has
\* run to its end
C15_Witness ==
    /\ ~channel
    /\ \E t \in TickIds : tick[t].pc = "done" /\ DueLoaded(t) # {}

\* C16: a tick that throws is caught by the periodic driver: whenever a
\* tick has thrown, a later tick is started.
C16_TickRunsAfterFailedTick ==
    \A t \in TickIds, b \in BOOLEAN :
        (tick[t].pc = "threw" /\ fired = b) ~> (fired # b)

\* a tick has thrown at a stored record whose isoJst is not a valid instant
C16_Witness ==
    \E t \in TickIds :
        /\ tick[t].pc = "threw"
        /\ formatJst(tick[t].events[tick[t].i].isoJst).threw

\* C17: a record is in the store with notified = true only if a delivery
\* call for it has returned success before; and a command never leaves a
\* record notified that was not notified in the store it found (so add
\* creates its record with notified = false).
C17_NotifiedOnlyAfterSuccess ==
    [][/\ \A e \in Recs(file') : e.notified => e.uid \in delivered'
       /\ cmd' # cmd =>
             \A b \in Recs(file') :
                 b.notified => \E a \in Recs(file) : a.uid = b.uid /\ a.notified]_vars

\* a tick has saved, and the store holds a notified record beside the
\* record of an add
C17_Witness ==
    /\ \E t \in TickIds : tick[t].pc = "done" /\ tick[t].saved
    /\ \E e \in Recs(file) : e.notified
    /\ \E e \in Recs(file) : e.uid >= 1 /\ ~e.notified

\* C18: when a tick is over (the channel id being set), a delivery call
\* was made in it for every record it loaded with notified = false and due
\* at its nowKey, whatever other records it loaded.
C18_EveryDueRecordAttempted ==
    \A t \in TickIds :
        (tick[t].pc \in {"done", "threw"} /\ channel) =>
            DueLoaded(t) \subseteq {c.uid : c \in Elems(tick[t].calls)}

\* every delivery call of a tick, made or awaited, is for a record whose
\* due key is that tick's nowKey
AttemptsOwnMinute ==
    \A t \in TickIds :
        /\ \A c \in Elems(tick[t].calls), e \in Elems(tick[t].loaded) :
              e.uid = c.uid => IsDue(e, tick[t].nowKey)
        /\ tick[t].pc = "await" =>
              IsDue(tick[t].events[tick[t].i], tick[t].nowKey)

\* a tick's nowKey is the minute key of the clock as the tick starts
NowKeyAtStart ==
    \A t \in TickIds :
        (tick[t].pc = "idle" /\ tick'[t].pc # "idle") =>
            tick'[t].nowKey = nowKeyJst

\* C19 (as stated): a delivery is attempted for a record only by a tick
\* whose nowKey, taken at its start, is the record's due key; and a record
\* unnotified in the store when the clock leaves its minute is never in the
\* store with notified = true afterwards.
C19_MissedStaysUnnotified ==
    [][/\ AttemptsOwnMinute'
       /\ NowKeyAtStart
       /\ \A p \in passed', e \in Recs(file') :
             e.uid = p.uid => ~e.notified]_vars

\* C19 (amended): a delivery is attempted for a record only by a tick
\* whose nowKey, taken at its start, is the record's due key; and a record
\* unnotified in the store when the clock leaves its minute, no tick
\* started in that minute being still in flight, is never in the store with
\* notified = true afterwards.
C19_MissedQuietlyStaysUnnotified ==
    [][/\ AttemptsOwnMinute'
       /\ NowKeyAtStart
       /\ \A p \in passed', e \in Recs(file') :
             (e.uid = p.uid /\ p.quiet) => ~e.notified]_vars

\* a tick started after the clock left the minute of an unnotified record,
\* none being in flight then, loaded that record and has run to its end
C19_Witness ==
    \E p \in passed, t \in TickIds :
        /\ p.quiet
        /\ tick[t].pc = "done"
        /\ tick[t].nowKey = nowKeyJst
        /\ \E e \in Elems(tick[t].loaded) : e.uid = p.uid /\ ~e.notified
        /\ \E e \in Recs(file) : e.uid = p.uid /\ ~e.notified

\* C20: a tick that is over has saved exactly when one of its delivery
\* calls succeeded, and then once, after a call was made for every record
\* it loaded unnotified and due; a tick still running has not saved.
C20_OneSaveIffDelivered ==
    \A t \in TickIds :
        /\ tick[t].pc \in {"done", "threw"} =>
              /\ tick[t].saved <=> \E c \in Elems(tick[t].calls) : c.ok
              /\ tick[t].saved =>
                    /\ file = saveEvents(tick[t].events)
                    /\ DueLoaded(t) \subseteq {c.uid : c \in Elems(tick[t].calls)}
        /\ tick[t].pc \in {"idle", "await"} => ~tick[t].saved

\* C21: the collection a tick saves is the one it loaded, record for
\* record, but for notified flags gone from false to true: same length,
\* and in each place the same id, scheduled time and title; and no command
\* step changes the scheduled time of a record that stays in the store.
C21_TickWritesOnlyNotified ==
    [][/\ \A t \in TickIds :
             tick'[t].saved =>
                 /\ file'.events = tick'[t].events
                 /\ Len(tick'[t].events) = Len(tick'[t].loaded)
                 /\ \A k \in 1..Len(tick'[t].loaded) :
                       /\ tick'[t].events[k].id = tick'[t].loaded[k].id
                       /\ tick'[t].events[k].isoJst = tick'[t].loaded[k].isoJst
                       /\ tick'[t].events[k].title = tick'[t].loaded[k].title
                       /\ tick'[t].events[k].uid = tick'[t].loaded[k].uid
                       /\ tick'[t].loaded[k].notified => tick'[t].events[k].notified
       /\ cmd' # cmd =>
             \A a \in Recs(file), b \in Recs(file') :
                 a.uid = b.uid => a.isoJst = b.isoJst]_vars

\* a tick has saved a collection of several records in which it set a flag
C21_Witness ==
    \E t \in TickIds :
        /\ tick[t].pc = "done"
        /\ tick[t].saved
        /\ Len(tick[t].loaded) >= 2
        /\ \E k \in 1..Len(tick[t].loaded) :
              ~tick[t].loaded[k].notified /\ tick[t].events[k].notified

\* C22: a command's load, mutation and save are one uninterrupted run
\* after its ack: the step that does its store I/O starts from the
\* acknowledged state and ends at the reply, no tick moves in it, the store
\* it loads is the store as that step finds it, and what it saves is that
\* store with the record added or the records of the id removed.  So no
\* add or remove leaves unnotified a record the store held notified.
C22_CommandRunsUninterrupted ==
    [][(cmd' # cmd /\ cmd'.io # <<>>) =>
          /\ cmd.pc = "ack"
          /\ cmd'.pc \in {"respond", "threw"}
          /\ \A t \in TickIds :
                /\ tick'[t].pc = tick[t].pc
                /\ tick'[t].events = tick[t].events
          /\ cmd'.before = file
          /\ cmd'.tokens[1] = "add" =>
                /\ cmd'.io = <<"load", "save">>
                /\ \E e \in Recs(file') :
                      /\ e.uid = nextUid
                      /\ Recs(file') = Recs(file) \cup {e}
          /\ cmd'.tokens[1] \in {"remove", "delete"} =>
                /\ cmd'.io = <<"load", "save">>
                /\ Recs(file') =
                      {e \in Recs(file) : e.id # Number(cmd'.tokens[2]).val}
          /\ \A a \in Recs(file), b \in Recs(file') :
                (a.uid = b.uid /\ a.notified) => b.notified]_vars

\* a tick's save has replaced a store holding a record that was added
\* while the tick awaited a delivery: the record is gone from the store
C22_Witness ==
    \E t \in TickIds :
        /\ tick[t].pc = "done"
        /\ tick[t].saved
        /\ \E e \in Elems(tick[t].over) :
              /\ e.uid \notin {d.uid : d \in Elems(tick[t].loaded)}
              /\ e.uid \notin {d.uid : d \in Recs(file)}

\* an add has run on a store holding a notified record
C22_Witness_FlagKept ==
    /\ Ended
    /\ cmd.reply.kind = "added"
    /\ \E e \in Recs(cmd.before) : e.notified

====
